---- MODULE Spec2Model ----
(***************************************************************************)
(* Model of the demoGenerate background job (src/src/inngest/functions.ts) *)
(* and of the DemoPage loading flags (src/src/app/demo/page.tsx).          *)
(*                                                                         *)
(* JavaScript strings are modelled as sequences of one-character strings,  *)
(* so that the regular expression, filter/join and the template literal    *)
(* are computed character by character.                                    *)
(***************************************************************************)
EXTENDS Integers, Sequences, FiniteSets, TLC

VARIABLES
    \* --- String.prototype.match(URL_REGEX) taken alone ---
    matchInput,     \* the string match() is applied to
    matchDone,      \* has match() run
    matchUrls,      \* prompt.match(URL_REGEX) ?? []
    \* --- results.filter(Boolean).join("\n\n") taken alone ---
    results,        \* the array Promise.all resolved to
    joinDone,       \* has filter/join run
    joined,         \* results.filter(Boolean).join("\n\n")
    \* --- the demoGenerate job, one entry per invocation ---
    lastIndex,      \* URL_REGEX.lastIndex (module-level, shared by all invocations)
    prompt,         \* event.data.prompt
    stage,          \* position of the handler in the pipeline
    status,         \* "running" | "completed" | "failed" (function run outcome)
    urls,           \* result of step "extract urls"
    scrapePhase,    \* "idle" | "awaiting" | "rejected" | "done" (step "scrape-urls")
    fetches,        \* the promises of the current/last urls.map(...) call
    scrapeContent,  \* result of step "scrape-urls"
    genPhase,       \* "idle" | "awaiting" | "rejected" | "done" (step "generate text")
    genPrompt,      \* the prompt argument of the last generateText call
    attempts,       \* failed attempts of the step currently being run
    extractRuns,    \* executions of the "extract urls" callback
    scrapeCalls,    \* firecrawl.scrape calls issued
    genCalls,       \* generateText calls issued
    genFailed,      \* has a generateText call rejected
    \* --- DemoPage ---
    loading,        \* useState(false): loading / loadingBackground
    handlerPc,      \* position of handleBlocking / handleBackground
    requests        \* POST requests issued by each handler

matchVars == <<matchInput, matchDone, matchUrls>>
joinVars  == <<results, joinDone, joined>>
jobVars   == <<lastIndex, prompt, stage, status, urls, scrapePhase, fetches,
               scrapeContent, genPhase, genPrompt, attempts, extractRuns,
               scrapeCalls, genCalls, genFailed>>
pageVars  == <<loading, handlerPc, requests>>
vars      == <<matchVars, joinVars, jobVars, pageVars>>

-----------------------------------------------------------------------------
(* Bounds *)

MaxPieces   == 5    \* a match() input is built from at most this many pieces
MaxResults  == 3    \* length of the results array given to filter and join
MaxAttempts == 2    \* attempts the host gives a step before the run fails
MaxRequests == 4    \* POST requests per DemoPage handler

-----------------------------------------------------------------------------
(* Strings *)

EmptyStr == << >>

\* JavaScript \s, restricted to the white space used in the inputs
IsSpace(c) == c \in {" ", "\n", "\t"}

RECURSIVE Concat(_)
\* concatenation of a sequence of strings
Concat(ss) == IF ss = << >> THEN EmptyStr ELSE Head(ss) \o Concat(Tail(ss))

\* does string p occur in s at (1-based) position i
OccursAt(s, i, p) ==
    /\ i >= 1
    /\ i + Len(p) - 1 <= Len(s)
    /\ \A k \in 1..Len(p) : s[i + k - 1] = p[k]

Http     == <<"h", "t", "t", "p">>
ColonSS  == <<":", "/", "/">>

-----------------------------------------------------------------------------
(* URL_REGEX = /https?:\/\/[^\s]+/g  and  String.prototype.match *)

\* https?:\/\/ tried at position i: the position after it, or 0 if it does not
\* match there. s? is greedy; the matcher backtracks to the empty alternative.
SchemeEnd(s, i) ==
    IF ~OccursAt(s, i, Http) THEN 0
    ELSE LET j == i + 4
             k == IF j <= Len(s) /\ s[j] = "s" THEN j + 1 ELSE j
         IN  IF OccursAt(s, k, ColonSS) THEN k + 3
             ELSE IF OccursAt(s, j, ColonSS) THEN j + 3
             ELSE 0

RECURSIVE RunEnd(_, _)
\* [^\s]* from position i: the position after the maximal run of non-space
RunEnd(s, i) ==
    IF i > Len(s) \/ IsSpace(s[i]) THEN i ELSE RunEnd(s, i + 1)

\* the pattern with [^\s]* in place of [^\s]+
MatchAt_star(s, i) ==
    LET k == SchemeEnd(s, i)
    IN  IF k = 0 THEN 0 ELSE RunEnd(s, k)

\* the whole pattern tried at position i: the position after the match, or 0
\* if it does not match there. [^\s]+ needs at least one character.
MatchAt(s, i) ==
    LET k == SchemeEnd(s, i)
    IN  IF k = 0 THEN 0
        ELSE LET e == RunEnd(s, k)
             IN  IF e > k THEN e ELSE 0

RECURSIVE RegExpExec(_, _)
\* RegExp.prototype.exec on a global regex whose lastIndex is li (0-based):
\* the leftmost match starting at or after li. [found, index, end], 0-based,
\* end exclusive; on failure lastIndex is reset to 0.
RegExpExec(s, li) ==
    IF li >= Len(s) THEN [found |-> FALSE, index |-> 0, end |-> 0]
    ELSE LET e == MatchAt(s, li + 1)
         IN  IF e # 0 THEN [found |-> TRUE, index |-> li, end |-> e - 1]
             ELSE RegExpExec(s, li + 1)

RECURSIVE MatchLoop(_, _)
\* the loop of RegExp.prototype[@@match] for a global regex: exec until null
MatchLoop(s, li) ==
    LET r == RegExpExec(s, li)
    IN  IF ~r.found THEN << >>
        ELSE <<SubSeq(s, r.index + 1, r.end)>> \o MatchLoop(s, r.end)

\* what a single exec() call would give: one match from the current lastIndex,
\* leaving lastIndex after it
StringMatch_exec(s, li) ==
    LET r == RegExpExec(s, IF li <= Len(s) THEN li ELSE Len(s))
    IN  IF r.found
        THEN [isNull |-> FALSE, matches |-> <<SubSeq(s, r.index + 1, r.end)>>,
              lastIndex |-> r.end]
        ELSE [isNull |-> TRUE, matches |-> << >>, lastIndex |-> 0]

\* a non-global regex: match() gives the first match only
StringMatch_first(s, li) ==
    LET r == RegExpExec(s, 0)
    IN  IF r.found
        THEN [isNull |-> FALSE, matches |-> <<SubSeq(s, r.index + 1, r.end)>>,
              lastIndex |-> li]
        ELSE [isNull |-> TRUE, matches |-> << >>, lastIndex |-> li]

\* prompt.match(URL_REGEX) with the g flag, the regex's lastIndex being li:
\* lastIndex is set to 0, every match is collected, null when there is none,
\* and lastIndex is 0 afterwards.
StringMatch(s, li) ==
    LET ms == MatchLoop(s, 0)
    IN  [isNull |-> ms = << >>, matches |-> ms, lastIndex |-> 0]

\* prompt.match(URL_REGEX) ?? []
ExtractUrls(s, li) ==
    LET m == StringMatch(s, li)
    IN  IF m.isNull THEN << >> ELSE m.matches

-----------------------------------------------------------------------------
(* results.filter(Boolean).join("\n\n") *)

Separator == <<"\n", "\n">>

\* Boolean(str): the empty string is the only falsy string
Truthy(str) == str # EmptyStr

RECURSIVE Join(_, _)
\* Array.prototype.join: the elements with sep between consecutive ones
Join(arr, sep) ==
    IF arr = << >> THEN EmptyStr
    ELSE IF Len(arr) = 1 THEN arr[1]
    ELSE arr[1] \o sep \o Join(Tail(arr), sep)

\* results.join("\n\n") without the filter
Aggregate_nofilter(rs) == Join(rs, Separator)

\* results.filter(Boolean).join("\n\n")
Aggregate(rs) == Join(SelectSeq(rs, Truthy), Separator)

-----------------------------------------------------------------------------
(* demoGenerate: prompt composition, scrape responses, stage order *)

ContextHeader  == <<"C", "o", "n", "t", "e", "x", "t", ":", "\n">>
QuestionHeader == <<"\n", "\n", "Q", "u", "e", "s", "t", "i", "o", "n", ":", "\n">>

\* the template literal without the content-presence test
FinalPrompt_always(p, content) ==
    ContextHeader \o content \o QuestionHeader \o p

\* scrapeContent ? `Context:\n${scrapeContent}\n\nQuestion:\n${prompt}` : prompt
FinalPrompt(p, content) ==
    IF Truthy(content)
    THEN ContextHeader \o content \o QuestionHeader \o p
    ELSE p

\* what firecrawl.scrape resolves to: { markdown?: string }
ScrapeResponses ==
    { [has |-> FALSE, markdown |-> EmptyStr],
      [has |-> TRUE,  markdown |-> EmptyStr],
      [has |-> TRUE,  markdown |-> <<"A">>],
      [has |-> TRUE,  markdown |-> <<"B">>] }

\* result.markdown || ""
MarkdownOrEmpty(r) ==
    IF r.has /\ Truthy(r.markdown) THEN r.markdown ELSE EmptyStr

\* a handler that does not await the scrape step before generating
NextStage_skip(s) ==
    CASE s = "ExtractingURLs" -> "Generating"
      [] s = "Scraping"       -> "Generating"
      [] s = "Generating"     -> "Done"
      [] OTHER                -> s

\* the awaited step.run calls follow each other in program order
NextStage(s) ==
    CASE s = "ExtractingURLs" -> "Scraping"
      [] s = "Scraping"       -> "Generating"
      [] s = "Generating"     -> "Done"
      [] OTHER                -> s

\* the extraction written in the handler body, outside step.run
ExtractIsStep_inline == FALSE

\* the extraction is the callback of step.run("extract urls", ...): the host
\* calls it only while the step has no recorded result
ExtractIsStep == TRUE

\* executions of the extraction in a handler run that finds the result of
\* "extract urls" recorded
ReplayedExtractRuns == IF ExtractIsStep THEN 0 ELSE 1

\* a step whose callback rejects leaves the recorded results of the steps
\* before it in place: the next handler run is at the same step
StageAfterStepFailure(s) == s

-----------------------------------------------------------------------------
(* Inputs *)

Jobs     == {"j1", "j2"}
Handlers == {"handleBlocking", "handleBackground"}

HttpUrlA  == <<"h", "t", "t", "p", ":", "/", "/", "a">>
HttpsUrlA == <<"h", "t", "t", "p", "s", ":", "/", "/", "a">>

\* prompts of the job invocations: no URL (with a bare scheme), one URL after
\* other text, two URLs
JobPrompts ==
    { <<"h", "t", "t", "p", ":", "/", "/", " ", "a">>,
      <<"a", " ">> \o HttpUrlA,
      HttpUrlA \o <<" ">> \o HttpsUrlA }

\* the pieces match() inputs are built from
Pieces ==
    { <<"h", "t", "t", "p", ":", "/", "/">>,
      <<"h", "t", "t", "p", "s", ":", "/", "/">>,
      <<"h", "t", "t", "p", ":", "/">>,
      <<"a">>, <<" ">>, <<"\n">> }

\* "See https://a.test and https://b.test now"
ExamplePrompt ==
    <<"S", "e", "e", " ">>
    \o <<"h", "t", "t", "p", "s", ":", "/", "/", "a", ".", "t", "e", "s", "t">>
    \o <<" ", "a", "n", "d", " ">>
    \o <<"h", "t", "t", "p", "s", ":", "/", "/", "b", ".", "t", "e", "s", "t">>
    \o <<" ", "n", "o", "w">>

MatchInputs ==
    { Concat(ps) : ps \in UNION { [1..n -> Pieces] : n \in 0..MaxPieces } }
    \cup { ExamplePrompt }

\* what a scrape leaves in the results array
ResultValues == { EmptyStr, <<"A">>, <<"B", "C">>, <<"\n">> }

ResultArrays == UNION { [1..n -> ResultValues] : n \in 0..MaxResults }

-----------------------------------------------------------------------------
(* Initial states *)

MatchIdle ==
    /\ matchInput = EmptyStr
    /\ matchDone = FALSE
    /\ matchUrls = << >>

JoinIdle ==
    /\ results = << >>
    /\ joinDone = FALSE
    /\ joined = EmptyStr

JobsStart(prompts) ==
    /\ lastIndex = 0
    /\ prompt = prompts
    /\ stage = [j \in Jobs |-> "ExtractingURLs"]
    /\ status = [j \in Jobs |-> "running"]
    /\ urls = [j \in Jobs |-> << >>]
    /\ scrapePhase = [j \in Jobs |-> "idle"]
    /\ fetches = [j \in Jobs |-> << >>]
    /\ scrapeContent = [j \in Jobs |-> EmptyStr]
    /\ genPhase = [j \in Jobs |-> "idle"]
    /\ genPrompt = [j \in Jobs |-> EmptyStr]
    /\ attempts = [j \in Jobs |-> 0]
    /\ extractRuns = [j \in Jobs |-> 0]
    /\ scrapeCalls = [j \in Jobs |-> 0]
    /\ genCalls = [j \in Jobs |-> 0]
    /\ genFailed = [j \in Jobs |-> FALSE]

JobsIdle == JobsStart([j \in Jobs |-> EmptyStr])

PageIdle ==
    /\ loading = [h \in Handlers |-> FALSE]
    /\ handlerPc = [h \in Handlers |-> "idle"]
    /\ requests = [h \in Handlers |-> 0]

-----------------------------------------------------------------------------
(* prompt.match(URL_REGEX) ?? []  applied to an arbitrary string *)

InitMatch ==
    /\ matchInput \in MatchInputs
    /\ matchDone = FALSE
    /\ matchUrls = << >>
    /\ JoinIdle /\ JobsIdle /\ PageIdle

DoMatch ==
    /\ ~matchDone
    /\ matchUrls' = ExtractUrls(matchInput, 0)
    /\ matchDone' = TRUE
    /\ UNCHANGED <<matchInput, joinVars, jobVars, pageVars>>

SpecMatch == InitMatch /\ [][DoMatch]_vars

-----------------------------------------------------------------------------
(* results.filter(Boolean).join("\n\n")  applied to an arbitrary array *)

InitJoin ==
    /\ results \in ResultArrays
    /\ joinDone = FALSE
    /\ joined = EmptyStr
    /\ MatchIdle /\ JobsIdle /\ PageIdle

DoJoin ==
    /\ ~joinDone
    /\ joined' = Aggregate(results)
    /\ joinDone' = TRUE
    /\ UNCHANGED <<results, matchVars, jobVars, pageVars>>

SpecJoin == InitJoin /\ [][DoJoin]_vars

-----------------------------------------------------------------------------
(* URL extraction stated without the matcher *)

HttpScheme  == Http \o ColonSS
HttpsScheme == Http \o <<"s">> \o ColonSS

\* a scheme is written at position i
StartsScheme(s, i) == OccursAt(s, i, HttpScheme) \/ OccursAt(s, i, HttpsScheme)

\* length of the scheme written at position i
SchemeLen(s, i) == IF OccursAt(s, i, HttpsScheme) THEN 8 ELSE 7

\* last position of the maximal run of non-white-space that follows position
\* i - 1 (i - 1 itself when s[i] is white space or beyond the end)
LastOfRun(s, i) ==
    CHOOSE e \in (i - 1)..Len(s) :
        /\ \A k \in i..e : ~IsSpace(s[k])
        /\ e = Len(s) \/ IsSpace(s[e + 1])

\* the substring that starts with the scheme at i and extends over the maximal
\* run of non-white-space that follows it
UrlFrom(s, i) == SubSeq(s, i, LastOfRun(s, i + SchemeLen(s, i)))

RECURSIVE InOrder(_, _, _)
\* the substrings UrlFrom(s, i), i in the set at, by increasing position
InOrder(s, at, from) ==
    IF \A i \in at : i < from THEN << >>
    ELSE LET i == CHOOSE x \in at : x >= from /\ \A y \in at : y >= from => x <= y
         IN  <<UrlFrom(s, i)>> \o InOrder(s, at, i + 1)

\* the scheme at i is followed by at least one non-white-space character
ValidStart(s, i) ==
    /\ StartsScheme(s, i)
    /\ i + SchemeLen(s, i) <= Len(s)
    /\ ~IsSpace(s[i + SchemeLen(s, i)])

\* position i lies in a substring that starts at an earlier valid position
Covered(s, i) ==
    \E j \in 1..(i - 1) : ValidStart(s, j) /\ \A k \in j..i : ~IsSpace(s[k])

\* s has no URL-shaped substring
NoUrlShaped(s) == \A i \in 1..Len(s) : ~ValidStart(s, i)

\* C8 as stated: URL extraction returns exactly the substrings that start with
\* "http://" or "https://" and extend over the maximal following run of
\* non-white-space characters, in order of occurrence, without deduplication.
\* (The run is read as non-empty, which is the reading closest to the code.)
C8_EveryScheme ==
    matchDone =>
        matchUrls = InOrder(matchInput,
                            {i \in 1..Len(matchInput) : ValidStart(matchInput, i)}, 1)

\* C8 amended: URL extraction returns, in order of occurrence and without
\* deduplication, the substrings that start with "http://" or "https://"
\* followed by at least one non-white-space character, extend over the maximal
\* run of non-white-space characters, and do not start inside an earlier one;
\* the prompt "See https://a.test and https://b.test now" yields
\* ["https://a.test", "https://b.test"].
C8_Extraction ==
    matchDone =>
        /\ matchUrls =
             InOrder(matchInput,
                     {i \in 1..Len(matchInput) :
                         ValidStart(matchInput, i) /\ ~Covered(matchInput, i)}, 1)
        /\ matchInput = ExamplePrompt =>
             matchUrls = <<SubSeq(ExamplePrompt, 5, 18), SubSeq(ExamplePrompt, 24, 37)>>

\* the same URL written twice has been extracted as two entries
C8_Witness ==
    /\ matchDone
    /\ Len(matchUrls) = 2
    /\ matchUrls[1] = matchUrls[2]
    /\ matchUrls[1] = HttpUrlA

-----------------------------------------------------------------------------
(* Aggregation stated without filter and join *)

\* indices of the non-empty results
Survivors(rs) == {i \in 1..Len(rs) : rs[i] # EmptyStr}

RECURSIVE LenBefore(_, _)
\* characters that precede survivor i in the aggregated context: the earlier
\* survivors, each followed by one separator
LenBefore(rs, i) ==
    IF i <= 1 THEN 0
    ELSE LenBefore(rs, i - 1)
         + (IF rs[i - 1] # EmptyStr THEN Len(rs[i - 1]) + 2 ELSE 0)

\* C5: the aggregated context is the non-empty results, in the order of the
\* URLs, with exactly "\n\n" between consecutive survivors and nothing before
\* the first or after the last; it is empty when every result is empty.
C5_Aggregation ==
    joinDone =>
        IF Survivors(results) = {} THEN joined = EmptyStr
        ELSE /\ Len(joined) = LenBefore(results, Len(results) + 1) - 2
             /\ \A i \in Survivors(results) :
                  /\ OccursAt(joined, LenBefore(results, i) + 1, results[i])
                  /\ (\E k \in Survivors(results) : k > i) =>
                       OccursAt(joined,
                                LenBefore(results, i) + Len(results[i]) + 1,
                                Separator)

\* an empty result between two survivors has been dropped
C5_Witness ==
    /\ joinDone
    /\ results = << <<"A">>, EmptyStr, <<"B", "C">> >>
    /\ joined = <<"A", "\n", "\n", "B", "C">>

-----------------------------------------------------------------------------
(* demoGenerate: the job.  The host runs the handler until its first step    *)
(* that has no recorded result, runs that step, records the result and runs  *)
(* the handler again; stage[j] is the step the handler is at.  A step whose  *)
(* callback rejects is run again by the host, MaxAttempts times at most;     *)
(* after that the run has failed.                                            *)

Init ==
    /\ \E prompts \in [Jobs -> JobPrompts] : JobsStart(prompts)
    /\ MatchIdle /\ JoinIdle /\ PageIdle

Pending == [state |-> "pending", value |-> EmptyStr]

\* the results array Promise.all resolves to
ValuesOf(f) == [i \in 1..Len(f) |-> f[i].value]

AllFulfilled(f) == \A i \in 1..Len(f) : f[i].state = "fulfilled"

\* step "extract urls": prompt.match(URL_REGEX) ?? []
ExtractStep(j) ==
    /\ status[j] = "running"
    /\ stage[j] = "ExtractingURLs"
    /\ urls' = [urls EXCEPT ![j] = ExtractUrls(prompt[j], lastIndex)]
    /\ lastIndex' = StringMatch(prompt[j], lastIndex).lastIndex
    /\ extractRuns' = [extractRuns EXCEPT ![j] = @ + 1]
    /\ stage' = [stage EXCEPT ![j] = NextStage(@)]
    /\ UNCHANGED <<prompt, status, scrapePhase, fetches, scrapeContent, genPhase,
                   genPrompt, attempts, scrapeCalls, genCalls, genFailed,
                   matchVars, joinVars, pageVars>>

\* step "scrape-urls" up to its await: urls.map starts one firecrawl.scrape per
\* URL; Promise.all of an empty array is fulfilled with [] at once
ScrapeStart(j) ==
    /\ status[j] = "running"
    /\ stage[j] = "Scraping"
    /\ scrapePhase[j] \in {"idle", "rejected"}
    /\ fetches' = [fetches EXCEPT ![j] = [i \in 1..Len(urls[j]) |-> Pending]]
    /\ scrapeCalls' = [scrapeCalls EXCEPT ![j] = @ + Len(urls[j])]
    /\ IF urls[j] = << >>
       THEN /\ scrapeContent' = [scrapeContent EXCEPT ![j] = Aggregate(<< >>)]
            /\ scrapePhase' = [scrapePhase EXCEPT ![j] = "done"]
            /\ stage' = [stage EXCEPT ![j] = NextStage(@)]
            /\ attempts' = [attempts EXCEPT ![j] = 0]
       ELSE /\ scrapePhase' = [scrapePhase EXCEPT ![j] = "awaiting"]
            /\ UNCHANGED <<scrapeContent, stage, attempts>>
    /\ extractRuns' = [extractRuns EXCEPT ![j] = @ + ReplayedExtractRuns]
    /\ UNCHANGED <<lastIndex, prompt, status, urls, genPhase, genPrompt,
                   genCalls, genFailed, matchVars, joinVars, pageVars>>

\* firecrawl.scrape(url) resolves with r: the map callback returns
\* result.markdown || ""; when that was the last promise Promise.all is waiting
\* for, the step returns results.filter(Boolean).join("\n\n")
FetchResolve(j, i, r) ==
    /\ i \in 1..Len(fetches[j])
    /\ fetches[j][i].state = "pending"
    /\ LET f == [fetches[j] EXCEPT ![i] =
                    [state |-> "fulfilled", value |-> MarkdownOrEmpty(r)]]
       IN  /\ fetches' = [fetches EXCEPT ![j] = f]
           /\ IF scrapePhase[j] = "awaiting" /\ AllFulfilled(f)
              THEN /\ scrapeContent' = [scrapeContent EXCEPT ![j] = Aggregate(ValuesOf(f))]
                   /\ scrapePhase' = [scrapePhase EXCEPT ![j] = "done"]
                   /\ stage' = [stage EXCEPT ![j] = NextStage(@)]
                   /\ attempts' = [attempts EXCEPT ![j] = 0]
              ELSE UNCHANGED <<scrapeContent, scrapePhase, stage, attempts>>
    /\ UNCHANGED <<lastIndex, prompt, status, urls, genPhase, genPrompt,
                   extractRuns, scrapeCalls, genCalls, genFailed,
                   matchVars, joinVars, pageVars>>

\* firecrawl.scrape(url) rejects: the map callback has no catch, so its promise
\* rejects, Promise.all rejects with it and the step callback throws, whatever
\* the state of the other promises
FetchReject(j, i) ==
    /\ i \in 1..Len(fetches[j])
    /\ fetches[j][i].state = "pending"
    /\ fetches' = [fetches EXCEPT ![j][i] = [state |-> "rejected", value |-> EmptyStr]]
    /\ IF scrapePhase[j] = "awaiting"
       THEN /\ scrapePhase' = [scrapePhase EXCEPT ![j] = "rejected"]
            /\ stage' = [stage EXCEPT ![j] = StageAfterStepFailure(@)]
            /\ attempts' = [attempts EXCEPT ![j] = @ + 1]
            /\ status' = [status EXCEPT ![j] =
                             IF attempts[j] + 1 >= MaxAttempts THEN "failed" ELSE @]
       ELSE UNCHANGED <<scrapePhase, stage, attempts, status>>
    /\ UNCHANGED <<lastIndex, prompt, urls, scrapeContent, genPhase,
                   genPrompt, extractRuns, scrapeCalls, genCalls, genFailed,
                   matchVars, joinVars, pageVars>>

\* finalPrompt and step "generate text" up to its await
GenerateStart(j) ==
    /\ status[j] = "running"
    /\ stage[j] = "Generating"
    /\ genPhase[j] \in {"idle", "rejected"}
    /\ genPrompt' = [genPrompt EXCEPT ![j] = FinalPrompt(prompt[j], scrapeContent[j])]
    /\ genCalls' = [genCalls EXCEPT ![j] = @ + 1]
    /\ genPhase' = [genPhase EXCEPT ![j] = "awaiting"]
    /\ extractRuns' = [extractRuns EXCEPT ![j] = @ + ReplayedExtractRuns]
    /\ UNCHANGED <<lastIndex, prompt, stage, status, urls, scrapePhase, fetches,
                   scrapeContent, attempts, scrapeCalls, genFailed,
                   matchVars, joinVars, pageVars>>

\* generateText resolves: the last step returns and the handler with it
GenerateResolve(j) ==
    /\ genPhase[j] = "awaiting"
    /\ genPhase' = [genPhase EXCEPT ![j] = "done"]
    /\ stage' = [stage EXCEPT ![j] = NextStage(@)]
    /\ status' = [status EXCEPT ![j] = "completed"]
    /\ attempts' = [attempts EXCEPT ![j] = 0]
    /\ UNCHANGED <<lastIndex, prompt, urls, scrapePhase, fetches, scrapeContent,
                   genPrompt, extractRuns, scrapeCalls, genCalls, genFailed,
                   matchVars, joinVars, pageVars>>

\* generateText rejects: the step callback throws
GenerateReject(j) ==
    /\ genPhase[j] = "awaiting"
    /\ genPhase' = [genPhase EXCEPT ![j] = "rejected"]
    /\ genFailed' = [genFailed EXCEPT ![j] = TRUE]
    /\ stage' = [stage EXCEPT ![j] = StageAfterStepFailure(@)]
    /\ attempts' = [attempts EXCEPT ![j] = @ + 1]
    /\ status' = [status EXCEPT ![j] =
                     IF attempts[j] + 1 >= MaxAttempts THEN "failed" ELSE @]
    /\ UNCHANGED <<lastIndex, prompt, urls, scrapePhase, fetches, scrapeContent,
                   genPrompt, extractRuns, scrapeCalls, genCalls,
                   matchVars, joinVars, pageVars>>

Next ==
    \E j \in Jobs :
        \/ ExtractStep(j)
        \/ ScrapeStart(j)
        \/ \E i \in 1..Len(fetches[j]), r \in ScrapeResponses : FetchResolve(j, i, r)
        \/ \E i \in 1..Len(fetches[j]) : FetchReject(j, i)
        \/ GenerateStart(j)
        \/ GenerateResolve(j)
        \/ GenerateReject(j)

Spec == Init /\ [][Next]_vars

-----------------------------------------------------------------------------
(* DemoPage: handleBlocking / handleBackground *)

InitPage ==
    /\ PageIdle
    /\ MatchIdle /\ JoinIdle /\ JobsIdle

\* onClick of a button that is not disabled: setLoading(true), then the fetch
\* is issued and the handler waits for it
HandlerStart(h) ==
    /\ ~loading[h]
    /\ handlerPc[h] # "awaiting"
    /\ requests[h] < MaxRequests
    /\ loading' = [loading EXCEPT ![h] = TRUE]
    /\ requests' = [requests EXCEPT ![h] = @ + 1]
    /\ handlerPc' = [handlerPc EXCEPT ![h] = "awaiting"]
    /\ UNCHANGED <<matchVars, joinVars, jobVars>>

\* the fetch resolves (any HTTP status): setLoading(false), the handler returns
HandlerFetchResolved(h) ==
    /\ handlerPc[h] = "awaiting"
    /\ loading' = [loading EXCEPT ![h] = FALSE]
    /\ handlerPc' = [handlerPc EXCEPT ![h] = "returned"]
    /\ UNCHANGED <<requests, matchVars, joinVars, jobVars>>

\* the fetch rejects (network failure): the await throws and the handler ends
\* there, the statement after the await is not run
HandlerFetchRejected(h) ==
    /\ handlerPc[h] = "awaiting"
    /\ handlerPc' = [handlerPc EXCEPT ![h] = "threw"]
    /\ UNCHANGED <<loading, requests, matchVars, joinVars, jobVars>>

NextPage ==
    \E h \in Handlers :
        \/ HandlerStart(h)
        \/ HandlerFetchResolved(h)
        \/ HandlerFetchRejected(h)

SpecPage == InitPage /\ [][NextPage]_vars

-----------------------------------------------------------------------------
(* Properties of the job *)

\* C1: a URL whose scrape call rejects contributes an empty string and never
\* aborts the scrape stage or the pipeline: with a rejected scrape call the
\* stage is still waiting for the others or has produced its context, and the
\* run has not failed in it.
C1_FailureIsolated ==
    \A j \in Jobs :
        (\E i \in 1..Len(fetches[j]) : fetches[j][i].state = "rejected") =>
            /\ scrapePhase[j] \in {"awaiting", "done"}
            /\ ~(status[j] = "failed" /\ stage[j] = "Scraping")

\* C2: the scrape stage is a join-all barrier: an attempt of the stage is over
\* (its context produced, or the attempt failed) only when every scrape call
\* it started has settled.
C2_JoinAll ==
    \A j \in Jobs :
        scrapePhase[j] \in {"done", "rejected"} =>
            \A i \in 1..Len(fetches[j]) : fetches[j][i].state # "pending"

\* C3: for a prompt with no URL-shaped substring, extraction returns the empty
\* sequence and does not fail, no scrape call is issued, and the aggregated
\* context is the empty string.
C3_NoUrls ==
    \A j \in Jobs :
        NoUrlShaped(prompt[j]) =>
            /\ urls[j] = << >>
            /\ scrapeCalls[j] = 0
            /\ Len(fetches[j]) = 0
            /\ scrapeContent[j] = EmptyStr
            /\ status[j] = "failed" => stage[j] = "Generating"

\* a prompt that holds a bare scheme and no URL has passed the scrape stage
C3_Witness ==
    \E j \in Jobs :
        /\ NoUrlShaped(prompt[j])
        /\ \E i \in 1..Len(prompt[j]) : StartsScheme(prompt[j], i)
        /\ extractRuns[j] = 1
        /\ scrapePhase[j] = "done"
        /\ genCalls[j] = 1

\* C4: the prompt passed to the generation call is "Context:\n" + context +
\* "\n\nQuestion:\n" + prompt when the aggregated context is non-empty, and the
\* original prompt, with no header, when it is empty.
C4_FinalPrompt ==
    \A j \in Jobs :
        genCalls[j] > 0 =>
            IF scrapeContent[j] = << >>
            THEN genPrompt[j] = prompt[j]
            ELSE /\ Len(genPrompt[j]) = 9 + Len(scrapeContent[j]) + 12 + Len(prompt[j])
                 /\ OccursAt(genPrompt[j], 1,
                             <<"C", "o", "n", "t", "e", "x", "t", ":", "\n">>)
                 /\ OccursAt(genPrompt[j], 10, scrapeContent[j])
                 /\ OccursAt(genPrompt[j], 10 + Len(scrapeContent[j]),
                             <<"\n", "\n", "Q", "u", "e", "s", "t", "i", "o", "n", ":", "\n">>)
                 /\ OccursAt(genPrompt[j], 22 + Len(scrapeContent[j]), prompt[j])

\* one generation call was made with a context and one without
C4_Witness ==
    \E j, k \in Jobs :
        /\ genCalls[j] > 0 /\ scrapeContent[j] = <<"A", "\n", "\n", "B">>
        /\ genCalls[k] > 0 /\ scrapeContent[k] = EmptyStr /\ Len(urls[k]) > 0

\* C6: once the generation call has failed, the extract step is not executed
\* again and no further scrape call is issued, whatever the host retries.
C6_NoRestart ==
    [][\A j \in Jobs :
          genFailed[j] => /\ extractRuns'[j] = extractRuns[j]
                          /\ scrapeCalls'[j] = scrapeCalls[j]]_vars

\* the generation call failed and the host ran the step again
C6_Witness ==
    \E j \in Jobs :
        /\ genFailed[j]
        /\ genCalls[j] >= 2
        /\ extractRuns[j] = 1
        /\ scrapeCalls[j] >= 1

StageSteps ==
    { <<"ExtractingURLs", "Scraping">>, <<"Scraping", "Generating">>,
      <<"Generating", "Done">> }

\* C7: the stages run in the order ExtractingURLs, Scraping, Generating, Done:
\* a stage is followed by the next one only, none is skipped or entered again,
\* no scrape call is made before extraction has completed and no generation
\* call before the scrape stage has completed.
C7_StageOrder ==
    /\ [][\A j \in Jobs :
             stage'[j] = stage[j] \/ <<stage[j], stage'[j]>> \in StageSteps]_vars
    /\ [](\A j \in Jobs :
             /\ (scrapeCalls[j] > 0 \/ scrapePhase[j] # "idle") =>
                   /\ stage[j] \in {"Scraping", "Generating", "Done"}
                   /\ extractRuns[j] >= 1
             /\ (genCalls[j] > 0 \/ genPhase[j] # "idle") =>
                   /\ stage[j] \in {"Generating", "Done"}
                   /\ scrapePhase[j] = "done"
             /\ stage[j] = "Done" <=> status[j] = "completed")

\* a job has gone through every stage, scraping two URLs
C7_Witness ==
    \E j \in Jobs :
        /\ stage[j] = "Done"
        /\ extractRuns[j] = 1
        /\ scrapeCalls[j] = 2
        /\ genCalls[j] = 1

\* what an invocation extracts when it runs alone
AloneUrls(p) ==
    InOrder(p, {i \in 1..Len(p) : ValidStart(p, i) /\ ~Covered(p, i)}, 1)

\* C9: under every interleaving of two invocations, the URL sequence, the
\* aggregated context and the final prompt of each are those it produces from
\* its own prompt and its own scrape results when it runs alone.
C9_Isolation ==
    \A j \in Jobs :
        /\ stage[j] # "ExtractingURLs" => urls[j] = AloneUrls(prompt[j])
        /\ scrapePhase[j] = "done" =>
              scrapeContent[j] = Aggregate(ValuesOf(fetches[j]))
        /\ genCalls[j] > 0 =>
              genPrompt[j] = FinalPrompt(prompt[j], scrapeContent[j])

\* two invocations with different URLs are both waiting for their scrape calls
C9_Witness ==
    \E j, k \in Jobs :
        /\ scrapePhase[j] = "awaiting" /\ Len(urls[j]) = 2
        /\ scrapePhase[k] = "awaiting" /\ Len(urls[k]) = 1
        /\ \E i \in 1..2 : fetches[j][i].state = "fulfilled"

-----------------------------------------------------------------------------
(* Property of DemoPage *)

\* C10: a loading flag set when its handler starts the fetch is false again
\* once that fetch has settled, whether it resolved or rejected.
C10_FlagReset ==
    \A h \in Handlers :
        handlerPc[h] \in {"returned", "threw"} => loading[h] = FALSE

====
